---- MODULE Spec2Model ----
(***************************************************************************)
(* CInputStreamPVRBase (xbmc/cores/VideoPlayer/DVDInputStreams/            *)
(* InputStreamPVRBase.cpp): the PVR input stream that bridges a PVR        *)
(* add-on's stream to the player.  The module models the stream gateway    *)
(* (Open, Close, Read, Seek) and the stream map synchroniser (OpenDemux,   *)
(* ReadDemux, UpdateStreamMap) as one state machine.  The PVR client, the  *)
(* subclass hooks (OpenPVRStream, ReadPVRStream, ...) and the settings are *)
(* external: their results are inputs chosen from small sets.              *)
(***************************************************************************)
EXTENDS Integers, Sequences, FiniteSets, TLC

\* ------------------------------------------------------------------ bounds

\* Number of slots of PVR_STREAM_PROPERTIES::stream[] that the model keeps.
MaxStreams == 2
\* ReadPVRStream / SeekPVRStream results range over -MaxRet..MaxRet.
MaxRet == 2
\* At most MaxSessions successful backend opens are explored.
MaxSessions == 2

\* The stream ids (PIDs) the backend reports.
PIDs == {1, 2}
BackendResults == (0 - MaxRet)..MaxRet

\* ------------------------------------------------------- external constants

\* PVR_CODEC_TYPE values an entry of the snapshot may carry.
CodecTypes ==
  {"PVR_CODEC_TYPE_VIDEO", "PVR_CODEC_TYPE_AUDIO", "PVR_CODEC_TYPE_DATA",
   "PVR_CODEC_TYPE_SUBTITLE", "PVR_CODEC_TYPE_RDS", "PVR_CODEC_TYPE_ID3"}

\* Codec ids: the one the rebuild looks at, and one other.
CodecIds == {"AV_CODEC_ID_DVB_TELETEXT", "AV_CODEC_ID_MP2"}

\* The classes of the CDemuxStream hierarchy the rebuild instantiates.
Subtypes ==
  {"CDemuxStream", "CDemuxStreamAudio", "CDemuxStreamVideo",
   "CDemuxStreamTeletext", "CDemuxStreamSubtitle", "CDemuxStreamRadioRDS",
   "CDemuxStreamAudioID3"}

\* whence values of Seek: the capability probe and an ordinary mode.
Whences == {"DVDSTREAM_SEEK_POSSIBLE", "SEEK_SET"}

\* iSubtitleInfo words the backend reports: none, and the 32-bit fixture.
SubtitleInfos == {0, 305419896}

\* ------------------------------------------------------------------- state

VARIABLES
  m_client,       \* TRUE iff a PVR client was obtained at construction
  m_isOpen,       \* bool m_isOpen
  m_eof,          \* bool m_eof
  m_StreamProps,  \* [iStreamCount, stream]: the properties snapshot
  m_streamMap,    \* std::map<int, shared_ptr<CDemuxStream>>: PID -> object id
  heap,           \* object id -> the fields of that CDemuxStream object
  enableradiords, \* setting "pvrplayback.enableradiords"
  lastOp,         \* name of the operation that produced this state
  arg,            \* its inputs (whence, backend results, packet)
  ret,            \* the value it returned
  calls,          \* the external functions it invoked
  prev,           \* m_isOpen, m_eof and m_streamMap before the operation
  pc,             \* "idle", or "loop" while UpdateStreamMap runs step by step
  loopIndex,      \* 1 + the loop variable i of UpdateStreamMap
  newStreamMap,   \* the local newStreamMap of UpdateStreamMap
  liveBefore,     \* m_streamMap and the objects when the running rebuild began
  builtCat,       \* PID -> iCodecType of its entry at the last rebuild
  nOpened,        \* number of OpenPVRStream calls that succeeded
  nClosed         \* number of ClosePVRStream calls

vars ==
  <<m_client, m_isOpen, m_eof, m_StreamProps, m_streamMap, heap,
    enableradiords, lastOp, arg, ret, calls, prev, builtCat, nOpened,
    nClosed, pc, loopIndex, newStreamMap, liveBefore>>

\* The state of a rebuild that runs step by step.
stepVars == <<pc, loopIndex, newStreamMap, liveBefore>>

\* The object's own state: what the frame conditions speak about.
objectVars == <<m_client, m_isOpen, m_eof, m_StreamProps, m_streamMap, heap>>

\* The empty std::map.
EmptyMap == [k \in {} |-> 0]

\* A value-initialised PVR_STREAM (make_shared<PVR_STREAM_PROPERTIES>()).
ZeroStream ==
  [iPID |-> 0, iCodecType |-> "PVR_CODEC_TYPE_VIDEO",
   iCodecId |-> "AV_CODEC_ID_NONE", iChannels |-> 0, iWidth |-> 0,
   iSubtitleInfo |-> 0]

\* A null shared_ptr / raw pointer.
NullPtr == 0

\* DemuxPacket::iStreamId values that ReadDemux tests for.
DMX_SPECIALID_STREAMINFO == -10
DMX_SPECIALID_STREAMCHANGE == -11

\* The packet DemuxRead hands back: none, or one carrying a stream id (the
\* two special ids, or the id 1 of an ordinary stream).
NullPacket == [null |-> TRUE, iStreamId |-> 0]
Packet(id) == [null |-> FALSE, iStreamId |-> id]
Packets ==
  {NullPacket} \cup
  {Packet(id) : id \in {1, DMX_SPECIALID_STREAMINFO, DMX_SPECIALID_STREAMCHANGE}}

\* Inputs of an operation that takes none of them.
NoArg ==
  [whence |-> "-", backend |-> 0, base |-> FALSE, pvr |-> FALSE,
   canSeek |-> FALSE, packet |-> NullPacket]

\* ------------------------------------------------- the backend's snapshots

\* A PVR_STREAM as the backend fills it in.
Stream(p, t, c, ch, w, si) ==
  [iPID |-> p, iCodecType |-> t, iCodecId |-> c, iChannels |-> ch,
   iWidth |-> w, iSubtitleInfo |-> si]

\* The entries a backend reports under PID p: every category, the teletext
\* codec id under several of them, two channel counts, both subtitle words.
RichEntries(p) ==
  {Stream(p, "PVR_CODEC_TYPE_AUDIO", "AV_CODEC_ID_MP2", 1, 0, 0),
   Stream(p, "PVR_CODEC_TYPE_AUDIO", "AV_CODEC_ID_DVB_TELETEXT", 2, 0, 0),
   Stream(p, "PVR_CODEC_TYPE_VIDEO", "AV_CODEC_ID_MP2", 0, 1, 0),
   Stream(p, "PVR_CODEC_TYPE_DATA", "AV_CODEC_ID_MP2", 0, 0, 0),
   Stream(p, "PVR_CODEC_TYPE_RDS", "AV_CODEC_ID_MP2", 0, 0, 0),
   Stream(p, "PVR_CODEC_TYPE_ID3", "AV_CODEC_ID_MP2", 0, 0, 0),
   Stream(p, "PVR_CODEC_TYPE_ID3", "AV_CODEC_ID_DVB_TELETEXT", 0, 0, 0)} \cup
  {Stream(p, "PVR_CODEC_TYPE_SUBTITLE", "AV_CODEC_ID_MP2", 0, 0, si) :
     si \in SubtitleInfos} \cup
  {Stream(p, "PVR_CODEC_TYPE_SUBTITLE", "AV_CODEC_ID_DVB_TELETEXT", 0, 0, 0)}

\* The one entry reported under each of the other PIDs.
PlainEntries(p) ==
  {Stream(p, "PVR_CODEC_TYPE_DATA", "AV_CODEC_ID_MP2", 0, 0, 0)}

BackendEntries ==
  RichEntries(1) \cup UNION {PlainEntries(p) : p \in PIDs \ {1}}

\* What GetStreamProperties can write from a set E of entries: a count and
\* that many entries, the remaining slots zeroed.
SnapshotsOf(E, n) ==
  {[iStreamCount |-> n, stream |-> s] :
     s \in {f \in [1..MaxStreams -> E \cup {ZeroStream}] :
              \A i \in 1..MaxStreams : (f[i] = ZeroStream) = (i > n)}}

\* The entry slot i holds by default: an audio stream under PID 1 in the
\* first slot, a data stream under PID 2 in the others.
DefaultEntry(i) ==
  IF i = 1
    THEN Stream(1, "PVR_CODEC_TYPE_AUDIO", "AV_CODEC_ID_MP2", 1, 0, 0)
    ELSE Stream(2, "PVR_CODEC_TYPE_DATA", "AV_CODEC_ID_MP2", 0, 0, 0)

\* The snapshots the backend reports: at most one of the entries is any
\* entry, the others are the defaults of their slots (this keeps the number
\* of snapshots small; a PID can still repeat, and change its category).
Snapshots ==
  {snap \in UNION {SnapshotsOf(BackendEntries, n) : n \in 0..MaxStreams} :
     Cardinality({i \in 1..snap.iStreamCount :
                    snap.stream[i] # DefaultEntry(i)}) <= 1}

\* A snapshot of the same layout as props (its count, PIDs and categories),
\* with refreshed metadata: what a stream-info packet announces.
SameLayout(props) ==
  {snap \in Snapshots :
     /\ snap.iStreamCount = props.iStreamCount
     /\ \A i \in 1..MaxStreams :
          /\ snap.stream[i].iPID = props.stream[i].iPID
          /\ snap.stream[i].iCodecType = props.stream[i].iCodecType}

\* The few snapshots the whole-system specification draws from: no stream,
\* one video stream, and all slots filled with data streams.
FewSnapshots ==
  {snap \in Snapshots :
     \/ snap.iStreamCount = 0
     \/ /\ snap.iStreamCount = 1
        /\ snap.stream[1].iCodecType = "PVR_CODEC_TYPE_VIDEO"
     \/ /\ snap.iStreamCount = MaxStreams
        /\ \A i \in 1..MaxStreams :
             /\ snap.stream[i].iCodecType = "PVR_CODEC_TYPE_DATA"
             /\ snap.stream[i].iPID = (IF i = 1 THEN 1 ELSE 2)}

\* ------------------------------------------------------ the stream map

Range(f) == {f[k] : k \in DOMAIN f}

\* The fields of a default-constructed stream object of class `type`.
MakeShared(type) ==
  [type |-> type, codec |-> "AV_CODEC_ID_NONE", uniqueId |-> 0,
   iChannels |-> 0, iWidth |-> 0, extraData |-> <<>>]

\* The address make_shared returns: one that no object alive in the old or
\* in the replacement map has (the least such, so that states are canonical).
FreshObject(old, new) ==
  CHOOSE o \in 1..(2 * Cardinality(PIDs) + 1) :
    /\ o \notin Range(old) \cup Range(new)
    /\ \A q \in 1..(o - 1) : q \in Range(old) \cup Range(new)

GetStreamInternal(map, iStreamId) ==
  IF iStreamId \in DOMAIN map THEN map[iStreamId] ELSE NullPtr

\* std::dynamic_pointer_cast<type>(dStream): the classes the rebuild casts to
\* derive from CDemuxStream directly, so the cast succeeds on that class only.
DynamicPointerCast(hp, dStream, type) ==
  IF dStream # NullPtr /\ hp[dStream].type = type THEN dStream ELSE NullPtr

\* Mutant of ExtraDataOf: the bytes of the word from the highest to the lowest.
ExtraDataOfInOrder(w) ==
  <<(w \div 16777216) % 256, (w \div 65536) % 256, (w \div 256) % 256, w % 256>>

\* The 4 bytes written into extraData for a subtitle-info word.
ExtraDataOf(w) ==
  <<(w \div 256) % 256, w % 256, (w \div 16777216) % 256, (w \div 65536) % 256>>

\* Mutant of SubtypeFor: the teletext codec id is tested before the audio and
\* video categories.
SubtypeForTeletextFirst(stream, rds) ==
  IF stream.iCodecId = "AV_CODEC_ID_DVB_TELETEXT" THEN "CDemuxStreamTeletext"
  ELSE IF stream.iCodecType = "PVR_CODEC_TYPE_AUDIO" THEN "CDemuxStreamAudio"
  ELSE IF stream.iCodecType = "PVR_CODEC_TYPE_VIDEO" THEN "CDemuxStreamVideo"
  ELSE IF stream.iCodecType = "PVR_CODEC_TYPE_SUBTITLE" THEN "CDemuxStreamSubtitle"
  ELSE IF stream.iCodecType = "PVR_CODEC_TYPE_RDS" /\ rds THEN "CDemuxStreamRadioRDS"
  ELSE IF stream.iCodecType = "PVR_CODEC_TYPE_ID3" THEN "CDemuxStreamAudioID3"
  ELSE "CDemuxStream"

\* Mutant of SubtypeFor: the RDS branch does not read the setting.
SubtypeForRdsAlways(stream, rds) ==
  IF stream.iCodecType = "PVR_CODEC_TYPE_AUDIO" THEN "CDemuxStreamAudio"
  ELSE IF stream.iCodecType = "PVR_CODEC_TYPE_VIDEO" THEN "CDemuxStreamVideo"
  ELSE IF stream.iCodecId = "AV_CODEC_ID_DVB_TELETEXT" THEN "CDemuxStreamTeletext"
  ELSE IF stream.iCodecType = "PVR_CODEC_TYPE_SUBTITLE" THEN "CDemuxStreamSubtitle"
  ELSE IF stream.iCodecType = "PVR_CODEC_TYPE_RDS" THEN "CDemuxStreamRadioRDS"
  ELSE IF stream.iCodecType = "PVR_CODEC_TYPE_ID3" THEN "CDemuxStreamAudioID3"
  ELSE "CDemuxStream"

\* The class the if / else-if chain of the loop body instantiates for an entry.
SubtypeFor(stream, rds) ==
  IF stream.iCodecType = "PVR_CODEC_TYPE_AUDIO" THEN "CDemuxStreamAudio"
  ELSE IF stream.iCodecType = "PVR_CODEC_TYPE_VIDEO" THEN "CDemuxStreamVideo"
  ELSE IF stream.iCodecId = "AV_CODEC_ID_DVB_TELETEXT" THEN "CDemuxStreamTeletext"
  ELSE IF stream.iCodecType = "PVR_CODEC_TYPE_SUBTITLE" THEN "CDemuxStreamSubtitle"
  ELSE IF stream.iCodecType = "PVR_CODEC_TYPE_RDS" /\ rds THEN "CDemuxStreamRadioRDS"
  ELSE IF stream.iCodecType = "PVR_CODEC_TYPE_ID3" THEN "CDemuxStreamAudioID3"
  ELSE "CDemuxStream"

\* The object a branch of the chain works on: the existing one when the cast
\* to the branch's class succeeds, otherwise none (a new one is made).  The
\* final else branch never looks at the existing object.
ReusedObject(hp, dStream, type) ==
  IF type = "CDemuxStream" THEN NullPtr ELSE DynamicPointerCast(hp, dStream, type)

\* The category-specific assignments of a branch, on the object's fields.
TypedFields(d, stream) ==
  IF d.type = "CDemuxStreamAudio" THEN [d EXCEPT !.iChannels = stream.iChannels]
  ELSE IF d.type = "CDemuxStreamVideo" THEN [d EXCEPT !.iWidth = stream.iWidth]
  ELSE IF d.type = "CDemuxStreamSubtitle" /\ stream.iSubtitleInfo # 0
    THEN [d EXCEPT !.extraData = ExtraDataOf(stream.iSubtitleInfo)]
  ELSE d

\* Mutant of UpdateEntry: uniqueId is not assigned.
UpdateEntryWithoutId(stream, old, st, rds) ==
  LET dStream == GetStreamInternal(old, stream.iPID)
      type == SubtypeFor(stream, rds)
      reused == ReusedObject(st.heap, dStream, type)
      obj == IF reused # NullPtr THEN reused ELSE FreshObject(old, st.new)
      before == IF reused # NullPtr THEN st.heap[obj] ELSE MakeShared(type)
      typed == TypedFields(before, stream)
      after == [typed EXCEPT !.codec = stream.iCodecId]
  IN [new |-> (stream.iPID :> obj) @@ st.new,
      heap |-> (obj :> after) @@ st.heap]

\* One iteration of the loop: st.new is newStreamMap, st.heap the objects.
UpdateEntry(stream, old, st, rds) ==
  LET dStream == GetStreamInternal(old, stream.iPID)
      type == SubtypeFor(stream, rds)
      reused == ReusedObject(st.heap, dStream, type)
      obj == IF reused # NullPtr THEN reused ELSE FreshObject(old, st.new)
      before == IF reused # NullPtr THEN st.heap[obj] ELSE MakeShared(type)
      typed == TypedFields(before, stream)
      after == [typed EXCEPT !.codec = stream.iCodecId, !.uniqueId = stream.iPID]
  IN [new |-> (stream.iPID :> obj) @@ st.new,
      heap |-> (obj :> after) @@ st.heap]

RECURSIVE UpdateLoop(_, _, _, _, _, _)
UpdateLoop(i, num, props, old, st, rds) ==
  IF i > num THEN st
  ELSE UpdateLoop(i + 1, num, props, old,
                  UpdateEntry(props.stream[i], old, st, rds), rds)

GetNrOfStreams(props) == props.iStreamCount

\* Mutant of UpdateStreamMap: the loop fills the live map instead of a new
\* one, so entries of the old map stay.
UpdateStreamMapInPlace(props, old, hp, rds) ==
  LET st == UpdateLoop(1, GetNrOfStreams(props), props, old,
                       [new |-> old, heap |-> hp], rds)
  IN [map |-> st.new,
      heap |-> [o \in Range(st.new) |-> st.heap[o]]]

\* UpdateStreamMap: the replacement map and the objects it keeps alive (an
\* object no map refers to any more is destroyed with its last shared_ptr).
UpdateStreamMap(props, old, hp, rds) ==
  LET st == UpdateLoop(1, GetNrOfStreams(props), props, old,
                       [new |-> EmptyMap, heap |-> hp], rds)
  IN [map |-> st.new,
      heap |-> [o \in Range(st.new) |-> st.heap[o]]]

\* iCodecType of the last of the first iStreamCount entries with PID id.
CategoryOf(props, id) ==
  LET idx == {i \in 1..GetNrOfStreams(props) : props.stream[i].iPID = id}
  IN IF idx = {} THEN "none"
     ELSE props.stream[CHOOSE i \in idx : \A j \in idx : j <= i].iCodecType

GetStream(id) ==
  IF id \in DOMAIN m_streamMap THEN m_streamMap[id] ELSE NullPtr

\* ------------------------------------------------------------------ Init

\* m_isOpen and m_eof of a new object: not open, and at end of stream until
\* a stream is opened.
InitialFlags == [m_isOpen |-> FALSE, m_eof |-> TRUE]

Init ==
  /\ m_client \in BOOLEAN
  /\ m_isOpen = InitialFlags.m_isOpen
  /\ m_eof = InitialFlags.m_eof
  /\ m_StreamProps =
       [iStreamCount |-> 0, stream |-> [i \in 1..MaxStreams |-> ZeroStream]]
  /\ m_streamMap = EmptyMap
  /\ heap = EmptyMap
  /\ enableradiords \in BOOLEAN
  /\ lastOp = "CInputStreamPVRBase"
  /\ arg = NoArg
  /\ ret = "void"
  /\ calls = {}
  /\ prev = [m_isOpen |-> InitialFlags.m_isOpen, m_eof |-> InitialFlags.m_eof,
             m_streamMap |-> EmptyMap]
  /\ builtCat = [p \in PIDs |-> "none"]
  /\ nOpened = 0
  /\ nClosed = 0
  /\ pc = "idle"
  /\ loopIndex = 0
  /\ newStreamMap = EmptyMap
  /\ liveBefore = [map |-> EmptyMap, heap |-> EmptyMap]

\* What an operation records of the state it starts in.
Pre == [m_isOpen |-> m_isOpen, m_eof |-> m_eof, m_streamMap |-> m_streamMap]

\* ------------------------------------------------------------ the gateway

\* Mutant of OpenSucceeds: the m_isOpen guard is missing.
OpenSucceedsUnguarded(isOpen, base, pvr) == base /\ pvr

\* Whether Open goes through: not open yet, and both opens succeed.
OpenSucceeds(isOpen, base, pvr) == ~isOpen /\ base /\ pvr

\* Open(): base and pvr are what CDVDInputStream::Open() and OpenPVRStream()
\* answer if they are called.
Open(base, pvr) ==
  LET ok == OpenSucceeds(m_isOpen, base, pvr)
  IN /\ ok => nOpened < MaxSessions
     /\ lastOp' = "Open"
     /\ arg' = [NoArg EXCEPT !.base = base, !.pvr = pvr]
     /\ calls' = IF ~ok /\ m_isOpen THEN {}
                 ELSE IF ~base THEN {"CDVDInputStream::Open"}
                 ELSE {"CDVDInputStream::Open", "OpenPVRStream"}
     /\ IF ok
          THEN /\ m_isOpen' = TRUE
               /\ m_eof' = FALSE
               /\ m_StreamProps' = [m_StreamProps EXCEPT !.iStreamCount = 0]
               /\ nOpened' = nOpened + 1
               /\ ret' = TRUE
          ELSE /\ UNCHANGED <<m_isOpen, m_eof, m_StreamProps, nOpened>>
               /\ ret' = FALSE
     /\ prev' = Pre
     /\ UNCHANGED <<m_client, m_streamMap, heap, enableradiords, builtCat, nClosed>>
     /\ UNCHANGED stepVars

\* Mutant of CloseGuard: Close tears down whatever the state.
CloseGuardMissing(isOpen) == TRUE

\* The condition under which Close does anything.
CloseGuard(isOpen) == isOpen

\* Close()
Close ==
  /\ lastOp' = "Close"
  /\ arg' = NoArg
  /\ ret' = "void"
  /\ IF CloseGuard(m_isOpen)
       THEN /\ calls' = {"ClosePVRStream", "CDVDInputStream::Close"}
            /\ m_eof' = TRUE
            /\ m_isOpen' = FALSE
            /\ nClosed' = nClosed + 1
       ELSE /\ calls' = {}
            /\ UNCHANGED <<m_eof, m_isOpen, nClosed>>
  /\ prev' = Pre
  /\ UNCHANGED <<m_client, m_StreamProps, m_streamMap, heap, enableradiords,
                 builtCat, nOpened>>
  /\ UNCHANGED stepVars

\* Mutant of ReadReturn: error codes are handed through as they come.
ReadReturnUnclamped(r) == r

\* Mutant of ReadReturn: the clamp starts one code too low.
ReadReturnOffByOne(r) == IF r < -2 THEN -1 ELSE r

\* The value Read returns for the backend result r.
ReadReturn(r) == IF r = 0 THEN r ELSE IF r < -1 THEN -1 ELSE r

\* Mutant of ReadEof: a Read that delivered data clears m_eof.
ReadEofCleared(r, eof) == IF r = 0 THEN TRUE ELSE IF r > 0 THEN FALSE ELSE eof

\* m_eof after a Read whose backend result is r.
ReadEof(r, eof) == IF r = 0 THEN TRUE ELSE eof

\* Read(buf, buf_size): r is what ReadPVRStream answers.
Read(r) ==
  /\ lastOp' = "Read"
  /\ arg' = [NoArg EXCEPT !.backend = r]
  /\ calls' = {"ReadPVRStream"}
  /\ m_eof' = ReadEof(r, m_eof)
  /\ ret' = ReadReturn(r)
  /\ prev' = Pre
  /\ UNCHANGED <<m_client, m_isOpen, m_StreamProps, m_streamMap, heap,
                 enableradiords, builtCat, nOpened, nClosed>>
  /\ UNCHANGED stepVars

\* Mutant of SeekEof: only a seek to a position past 0 clears m_eof.
SeekEofStrict(r, eof) == IF r > 0 THEN FALSE ELSE eof

\* m_eof after a real seek whose backend result is r.
SeekEof(r, eof) == IF r >= 0 THEN FALSE ELSE eof

\* Mutant of Seek: the probe mode is not recognised and seeks for real.
SeekWithoutProbe(whence, r, canSeek) ==
  /\ lastOp' = "Seek"
  /\ prev' = Pre
  /\ arg' = [NoArg EXCEPT !.whence = whence, !.backend = r, !.canSeek = canSeek]
  /\ calls' = {"SeekPVRStream"}
  /\ m_eof' = SeekEof(r, m_eof)
  /\ ret' = r
  /\ UNCHANGED <<m_client, m_isOpen, m_StreamProps, m_streamMap, heap,
                 enableradiords, builtCat, nOpened, nClosed>>
  /\ UNCHANGED stepVars

\* Seek(offset, whence): canSeek is what CanSeek() answers, r what
\* SeekPVRStream answers, each if it is called.
Seek(whence, r, canSeek) ==
  /\ lastOp' = "Seek"
  /\ prev' = Pre
  /\ IF whence = "DVDSTREAM_SEEK_POSSIBLE"
       THEN /\ arg' = [NoArg EXCEPT !.whence = whence, !.canSeek = canSeek]
            /\ calls' = {"CanSeekPVRStream"}
            /\ ret' = IF canSeek THEN 1 ELSE 0
            /\ UNCHANGED m_eof
       ELSE /\ arg' = [NoArg EXCEPT !.whence = whence, !.backend = r]
            /\ calls' = {"SeekPVRStream"}
            /\ m_eof' = SeekEof(r, m_eof)
            /\ ret' = r
  /\ UNCHANGED <<m_client, m_isOpen, m_StreamProps, m_streamMap, heap,
                 enableradiords, builtCat, nOpened, nClosed>>
  /\ UNCHANGED stepVars

\* The RDS and subtitle entries the backend can report under PID p, with
\* either codec id and either subtitle-info word, and a data entry.
TypingEntries(p) ==
  {Stream(p, t, c, 0, 0, si) :
     t \in {"PVR_CODEC_TYPE_RDS", "PVR_CODEC_TYPE_SUBTITLE"},
     c \in CodecIds, si \in SubtitleInfos} \cup PlainEntries(p)

\* Snapshots of those entries: the first slot holds any of them under PID 1,
\* every other slot in use the default of the slot.
TypingSnapshots ==
  {snap \in UNION {SnapshotsOf(TypingEntries(1) \cup PlainEntries(2), n) :
                     n \in 0..MaxStreams} :
     \A i \in 1..snap.iStreamCount :
       IF i = 1 THEN snap.stream[i] \in TypingEntries(1)
                ELSE snap.stream[i] = DefaultEntry(i)}

\* ------------------------------------------------------------- the demuxer

\* GetStreamProperties followed by UpdateStreamMap, as OpenDemux and the
\* stream-change branch of ReadDemux run them; snap is what the client writes.
Rebuild(snap) ==
  \E r \in {UpdateStreamMap(snap, m_streamMap, heap, enableradiords)} :
     /\ m_StreamProps' = snap
     /\ m_streamMap' = r.map
     /\ heap' = r.heap
     /\ builtCat' = [p \in PIDs |-> CategoryOf(snap, p)]

\* OpenDemux()
OpenDemux(snap) ==
  /\ lastOp' = "OpenDemux"
  /\ arg' = NoArg
  /\ prev' = Pre
  /\ IF m_client
       THEN /\ calls' = {"GetStreamProperties"}
            /\ Rebuild(snap)
            /\ ret' = TRUE
       ELSE /\ calls' = {}
            /\ ret' = FALSE
            /\ UNCHANGED <<m_StreamProps, m_streamMap, heap, builtCat>>
  /\ UNCHANGED <<m_client, m_isOpen, m_eof, enableradiords, nOpened, nClosed>>
  /\ UNCHANGED stepVars

\* ReadDemux(): pPacket is what DemuxRead hands back.
ReadDemuxInfoRebuilds(pPacket, snap) ==
  /\ lastOp' = "ReadDemux"
  /\ prev' = Pre
  /\ IF ~m_client
       THEN /\ arg' = NoArg
            /\ calls' = {}
            /\ ret' = NullPacket
            /\ UNCHANGED <<m_StreamProps, m_streamMap, heap, builtCat>>
       ELSE /\ arg' = [NoArg EXCEPT !.packet = pPacket]
            /\ ret' = pPacket
            /\ IF pPacket.null
                 THEN /\ calls' = {"DemuxRead"}
                      /\ UNCHANGED <<m_StreamProps, m_streamMap, heap, builtCat>>
                 ELSE IF pPacket.iStreamId \in {DMX_SPECIALID_STREAMINFO,
                                                DMX_SPECIALID_STREAMCHANGE}
                 THEN /\ calls' = {"DemuxRead", "GetStreamProperties"}
                      /\ Rebuild(snap)
                 ELSE /\ calls' = {"DemuxRead"}
                      /\ UNCHANGED <<m_StreamProps, m_streamMap, heap, builtCat>>
  /\ UNCHANGED <<m_client, m_isOpen, m_eof, enableradiords, nOpened, nClosed>>
  /\ UNCHANGED stepVars

ReadDemux(pPacket, snap) ==
  /\ lastOp' = "ReadDemux"
  /\ prev' = Pre
  /\ IF ~m_client
       THEN /\ arg' = NoArg
            /\ calls' = {}
            /\ ret' = NullPacket
            /\ UNCHANGED <<m_StreamProps, m_streamMap, heap, builtCat>>
       ELSE /\ arg' = [NoArg EXCEPT !.packet = pPacket]
            /\ ret' = pPacket
            /\ IF pPacket.null
                 THEN /\ calls' = {"DemuxRead"}
                      /\ UNCHANGED <<m_StreamProps, m_streamMap, heap, builtCat>>
                 ELSE IF pPacket.iStreamId = DMX_SPECIALID_STREAMINFO
                 THEN /\ calls' = {"DemuxRead", "GetStreamProperties"}
                      /\ m_StreamProps' = snap
                      /\ UNCHANGED <<m_streamMap, heap, builtCat>>
                 ELSE IF pPacket.iStreamId = DMX_SPECIALID_STREAMCHANGE
                 THEN /\ calls' = {"DemuxRead", "GetStreamProperties"}
                      /\ Rebuild(snap)
                 ELSE /\ calls' = {"DemuxRead"}
                      /\ UNCHANGED <<m_StreamProps, m_streamMap, heap, builtCat>>
  /\ UNCHANGED <<m_client, m_isOpen, m_eof, enableradiords, nOpened, nClosed>>
  /\ UNCHANGED stepVars

\* The user switches the setting "pvrplayback.enableradiords".
SetRadioRDS(b) ==
  /\ b # enableradiords
  /\ enableradiords' = b
  /\ lastOp' = "SetRadioRDS"
  /\ arg' = NoArg
  /\ ret' = "void"
  /\ calls' = {}
  /\ prev' = Pre
  /\ UNCHANGED <<m_client, m_isOpen, m_eof, m_StreamProps, m_streamMap, heap,
                 builtCat, nOpened, nClosed>>
  /\ UNCHANGED stepVars

\* What GetStreamReadChunkSize may write into its argument.
ChunkSizes == {0, 1}

\* The value GetBlockSize() returns: -1 unless a client is present and wrote
\* a chunk size.
GetBlockSizeDefaultZero(client, written, chunk) ==
  IF client /\ written THEN chunk ELSE 0

GetBlockSizeReturn(client, written, chunk) ==
  IF client /\ written THEN chunk ELSE 0 - 1

\* GetBlockSize(): written says whether the client sets the size, chunk to what.
GetBlockSize(written, chunk) ==
  /\ lastOp' = "GetBlockSize"
  /\ arg' = NoArg
  /\ prev' = Pre
  /\ calls' = IF m_client THEN {"GetStreamReadChunkSize"} ELSE {}
  /\ ret' = GetBlockSizeReturn(m_client, written, chunk)
  /\ UNCHANGED <<m_client, m_isOpen, m_eof, m_StreamProps, m_streamMap, heap,
                 enableradiords, builtCat, nOpened, nClosed>>
  /\ UNCHANGED stepVars

\* SeekTime(): noError says whether the client answers PVR_ERROR_NO_ERROR.
SeekTime(noError) ==
  /\ lastOp' = "SeekTime"
  /\ arg' = NoArg
  /\ prev' = Pre
  /\ calls' = IF m_client THEN {"SeekTime"} ELSE {}
  /\ ret' = IF m_client THEN noError ELSE FALSE
  /\ UNCHANGED <<m_client, m_isOpen, m_eof, m_StreamProps, m_streamMap, heap,
                 enableradiords, builtCat, nOpened, nClosed>>
  /\ UNCHANGED stepVars

\* A handler that forwards to one call of the client when there is a client
\* and does nothing else.
Forward(op, call) ==
  /\ lastOp' = op
  /\ arg' = NoArg
  /\ prev' = Pre
  /\ calls' = IF m_client THEN {call} ELSE {}
  /\ ret' = "void"
  /\ UNCHANGED <<m_client, m_isOpen, m_eof, m_StreamProps, m_streamMap, heap,
                 enableradiords, builtCat, nOpened, nClosed>>
  /\ UNCHANGED stepVars

\* SetSpeed(Speed)
SetSpeed == Forward("SetSpeed", "SetSpeed")

\* FillBuffer(mode)
FillBuffer == Forward("FillBuffer", "FillBuffer")

\* AbortDemux()
AbortDemux == Forward("AbortDemux", "DemuxAbort")

\* FlushDemux()
FlushDemux == Forward("FlushDemux", "DemuxFlush")

\* -------------------------------------------- the rebuild, step by step

\* The counts a client can write into iStreamCount: those the array has room
\* for, one more, and a count that reads as negative.
ReportedCounts == (0 - 1)..(MaxStreams + 1)

\* Snapshots of audio and data entries, and the same with a count the array
\* has no room for or a negative one.
StepSnapshots ==
  LET base == {snap \in Snapshots :
                 \A i \in 1..snap.iStreamCount :
                   snap.stream[i].iCodecType \in
                     {"PVR_CODEC_TYPE_AUDIO", "PVR_CODEC_TYPE_DATA"}}
  IN base \cup
     {[snap EXCEPT !.iStreamCount = n] :
        snap \in {b \in base : b.iStreamCount = MaxStreams},
        n \in ReportedCounts \ (0..MaxStreams)}

\* What a read of stream[i] past the end of the array can yield.
BeyondTheArray ==
  {Stream(1, "PVR_CODEC_TYPE_AUDIO", "AV_CODEC_ID_MP2", 2, 0, 0),
   Stream(2, "PVR_CODEC_TYPE_DATA", "AV_CODEC_ID_MP2", 0, 0, 0)}

\* What a reader of the live map sees: under each key the object and its
\* fields.
Observed(map, hp) ==
  [k \in DOMAIN map |-> [object |-> map[k], fields |-> hp[map[k]]]]

\* Mutant of UpdateStreamMapStep: an iteration stores its entry in the live
\* map as well.
UpdateStreamMapStepPublishing(stream, live, new, hp, rds) ==
  LET st == UpdateEntry(stream, live, [new |-> new, heap |-> hp], rds)
  IN [live |-> (stream.iPID :> st.new[stream.iPID]) @@ live,
      new |-> st.new,
      heap |-> [o \in Range((stream.iPID :> st.new[stream.iPID]) @@ live)
                        \cup Range(st.new) |-> st.heap[o]]]

\* One iteration of the loop of UpdateStreamMap on the maps and the objects:
\* the live map is only read, the entry goes into newStreamMap.
UpdateStreamMapStep(stream, live, new, hp, rds) ==
  LET st == UpdateEntry(stream, live, [new |-> new, heap |-> hp], rds)
  IN [live |-> live,
      new |-> st.new,
      heap |-> [o \in Range(live) \cup Range(st.new) |-> st.heap[o]]]

\* OpenDemux() up to the loop of UpdateStreamMap: the client writes snap and
\* newStreamMap is declared.
OpenDemuxBegin(snap) ==
  /\ pc = "idle"
  /\ m_client
  /\ m_StreamProps' = snap
  /\ pc' = "loop"
  /\ loopIndex' = 1
  /\ newStreamMap' = EmptyMap
  /\ liveBefore' = [map |-> m_streamMap, heap |-> heap]
  /\ lastOp' = "GetStreamProperties"
  /\ arg' = NoArg
  /\ ret' = "void"
  /\ calls' = {"GetStreamProperties"}
  /\ prev' = Pre
  /\ UNCHANGED <<m_client, m_isOpen, m_eof, m_streamMap, heap, enableradiords,
                 builtCat, nOpened, nClosed>>

\* One iteration of the loop: it reads stream[i]; beyond is what that read
\* yields when i is past the end of the array.
UpdateStreamMapEntry(beyond) ==
  /\ pc = "loop"
  /\ loopIndex <= GetNrOfStreams(m_StreamProps)
  /\ \E r \in {UpdateStreamMapStep(
                 IF loopIndex \in 1..MaxStreams
                   THEN m_StreamProps.stream[loopIndex] ELSE beyond,
                 m_streamMap, newStreamMap, heap, enableradiords)} :
       /\ m_streamMap' = r.live
       /\ newStreamMap' = r.new
       /\ heap' = r.heap
  /\ loopIndex' = loopIndex + 1
  /\ lastOp' = "UpdateStreamMap"
  /\ arg' = NoArg
  /\ ret' = "void"
  /\ calls' = {}
  /\ prev' = Pre
  /\ UNCHANGED <<m_client, m_isOpen, m_eof, m_StreamProps, enableradiords,
                 builtCat, nOpened, nClosed, pc, liveBefore>>

\* The end of UpdateStreamMap and of OpenDemux: newStreamMap replaces the
\* live map, and the objects only the old map held are destroyed.
UpdateStreamMapSwap ==
  /\ pc = "loop"
  /\ loopIndex > GetNrOfStreams(m_StreamProps)
  /\ m_streamMap' = newStreamMap
  /\ heap' = [o \in Range(newStreamMap) |-> heap[o]]
  /\ pc' = "idle"
  /\ loopIndex' = 0
  /\ newStreamMap' = EmptyMap
  /\ liveBefore' = [map |-> EmptyMap, heap |-> EmptyMap]
  /\ lastOp' = "OpenDemux"
  /\ arg' = NoArg
  /\ ret' = TRUE
  /\ calls' = {}
  /\ prev' = Pre
  /\ UNCHANGED <<m_client, m_isOpen, m_eof, m_StreamProps, enableradiords,
                 builtCat, nOpened, nClosed>>

\* GetStreams(), called by a reader at any moment: the objects of the live
\* map, which the reader then looks into.
GetStreams ==
  /\ lastOp' = "GetStreams"
  /\ arg' = NoArg
  /\ ret' = Observed(m_streamMap, heap)
  /\ calls' = {}
  /\ prev' = Pre
  /\ UNCHANGED <<m_client, m_isOpen, m_eof, m_StreamProps, m_streamMap, heap,
                 enableradiords, builtCat, nOpened, nClosed>>
  /\ UNCHANGED stepVars

\* The shape of the object's state.
TypeOK ==
  /\ m_client \in BOOLEAN /\ m_isOpen \in BOOLEAN /\ m_eof \in BOOLEAN
  /\ enableradiords \in BOOLEAN
  /\ m_StreamProps.iStreamCount \in ReportedCounts
  /\ \A i \in 1..MaxStreams :
       /\ m_StreamProps.stream[i].iCodecType \in CodecTypes
       /\ m_StreamProps.stream[i].iCodecId \in CodecIds \cup {"AV_CODEC_ID_NONE"}
  /\ DOMAIN m_streamMap \subseteq PIDs
  /\ DOMAIN heap = Range(m_streamMap) \cup Range(newStreamMap)
  /\ pc \in {"idle", "loop"}
  /\ DOMAIN newStreamMap \subseteq PIDs
  /\ \A o \in DOMAIN heap : heap[o].type \in Subtypes /\ heap[o].codec \in CodecIds

\* ------------------------------------------------------- specifications

\* The whole system, the demuxer fed from the few snapshots.
Next ==
  \/ \E base \in BOOLEAN, pvr \in BOOLEAN : Open(base, pvr)
  \/ Close
  \/ \E r \in BackendResults : Read(r)
  \/ \E whence \in Whences, r \in BackendResults, canSeek \in BOOLEAN :
       Seek(whence, r, canSeek)
  \/ \E snap \in FewSnapshots : OpenDemux(snap)
  \/ \E pPacket \in Packets, snap \in FewSnapshots : ReadDemux(pPacket, snap)
  \/ \E b \in BOOLEAN : SetRadioRDS(b)
  \/ \E written \in BOOLEAN, chunk \in ChunkSizes : GetBlockSize(written, chunk)
  \/ \E noError \in BOOLEAN : SeekTime(noError)
  \/ SetSpeed
  \/ FillBuffer
  \/ AbortDemux
  \/ FlushDemux

Spec == Init /\ [][Next]_vars

\* The demuxer alone, fed from every snapshot; a stream-info packet announces
\* a snapshot of the layout already known.
NextDemux ==
  \/ \E snap \in Snapshots : OpenDemux(snap)
  \/ \E pPacket \in Packets :
       \E snap \in (IF pPacket = Packet(DMX_SPECIALID_STREAMINFO)
                     THEN SameLayout(m_StreamProps) ELSE Snapshots) :
         ReadDemux(pPacket, snap)
  \/ \E b \in BOOLEAN : SetRadioRDS(b)

SpecDemux == Init /\ [][NextDemux]_vars

\* The rebuilds alone, fed from the RDS and subtitle snapshots.
NextTyping ==
  \/ \E snap \in TypingSnapshots : OpenDemux(snap)
  \/ \E snap \in TypingSnapshots :
       ReadDemux(Packet(DMX_SPECIALID_STREAMCHANGE), snap)
  \/ \E b \in BOOLEAN : SetRadioRDS(b)

SpecTyping == Init /\ [][NextTyping]_vars

\* The rebuild as one step per entry and the final assignment, with a reader
\* of the live map in between.
NextSteps ==
  \/ \E snap \in StepSnapshots : OpenDemuxBegin(snap)
  \/ \E beyond \in BeyondTheArray : UpdateStreamMapEntry(beyond)
  \/ UpdateStreamMapSwap
  \/ GetStreams

SpecSteps == Init /\ [][NextSteps]_vars

\* ------------------------------------------------------------- the claims

ReadStep == lastOp' = "Read"
ProbeSeekStep == lastOp' = "Seek" /\ arg'.whence = "DVDSTREAM_SEEK_POSSIBLE"
RealSeekStep == lastOp' = "Seek" /\ arg'.whence # "DVDSTREAM_SEEK_POSSIBLE"
OpenStep == lastOp' = "Open"
CloseStep == lastOp' = "Close"

\* C4, as claimed: a Read with backend result 0 sets m_eof; a Read with a
\* backend result > 0 leaves m_eof unchanged and m_eof is false after it.
C4_ReadLeavesEofFalse ==
  [][ReadStep =>
       /\ (arg'.backend = 0 => m_eof')
       /\ (arg'.backend > 0 => m_eof' = m_eof /\ ~m_eof')]_vars

\* C4, amended: a Read with backend result 0 sets m_eof; a Read with a
\* backend result > 0 leaves m_eof as it was, true included.
C4_ReadKeepsEof ==
  [][ReadStep =>
       /\ (arg'.backend = 0 => m_eof')
       /\ (arg'.backend > 0 => m_eof' = m_eof)]_vars

\* An open stream that has hit end of stream delivers data again: m_eof is
\* still true after that Read.
C4_Witness ==
  /\ lastOp = "Read" /\ arg.backend > 0
  /\ m_isOpen /\ prev.m_eof /\ m_eof

\* C5: Read returns the backend result r when r >= -1 and -1 when r < -1, so
\* it never returns a value below -1.
C5_ReadReturnClamped ==
  lastOp = "Read" =>
    /\ (arg.backend >= -1 => ret = arg.backend)
    /\ (arg.backend < -1 => ret = -1)
    /\ ret >= -1

\* A Read whose backend result lies below -1.
C5_Witness == lastOp = "Read" /\ arg.backend < -1 /\ ret = -1

\* C6, as claimed: of two Reads, one with the transient backend result that
\* is passed through unchanged (-1), the other with any other negative
\* result, the returned values differ.
C6_TransientDistinct ==
  [][lastOp = "Read" /\ lastOp' = "Read"
       /\ arg.backend = -1 /\ arg'.backend < 0 /\ arg'.backend # -1
       => ret # ret']_vars

\* success (> 0), end of stream (0), failure (< 0)
ResultClass(r) == IF r > 0 THEN "data" ELSE IF r = 0 THEN "eof" ELSE "error"

\* C6, amended: two Reads whose backend results are both negative return the
\* same value, -1; two Reads whose backend results differ in class (data,
\* end of stream, error) return different values.
C6_ErrorsCollapse ==
  [][lastOp = "Read" /\ lastOp' = "Read" =>
       /\ (arg.backend < 0 /\ arg'.backend < 0 => ret = -1 /\ ret' = -1)
       /\ (ResultClass(arg.backend) # ResultClass(arg'.backend) => ret # ret')]_vars

\* On an open stream the transient code -1 comes back as -1, the value every
\* other error is mapped to.
C6_Witness ==
  lastOp = "Read" /\ m_isOpen /\ ~m_eof /\ arg.backend = -1 /\ ret = -1

\* C7: Seek in the probe mode does not call SeekPVRStream, returns 1 iff
\* CanSeek() is true and 0 otherwise, and leaves m_eof, m_isOpen, the
\* snapshot and the stream map as they were.
C7_ProbeSeek ==
  [][ProbeSeekStep =>
       /\ "SeekPVRStream" \notin calls'
       /\ ret' = (IF arg'.canSeek THEN 1 ELSE 0)
       /\ UNCHANGED objectVars]_vars

\* A probe answered with 1 at end of stream, with streams in the map.
C7_Witness ==
  /\ lastOp = "Seek" /\ arg.whence = "DVDSTREAM_SEEK_POSSIBLE"
  /\ ret = 1 /\ m_eof /\ m_isOpen /\ m_streamMap # EmptyMap

\* C8: a Seek in any other mode returns the backend result as it is; m_eof is
\* false after it when that result is >= 0 and unchanged when it is negative.
C8_RealSeek ==
  [][RealSeekStep =>
       /\ ret' = arg'.backend
       /\ (arg'.backend >= 0 => ~m_eof')
       /\ (arg'.backend < 0 => m_eof' = m_eof)]_vars

\* A seek that succeeds at end of stream.
C8_Witness ==
  /\ lastOp = "Seek" /\ arg.whence = "SEEK_SET"
  /\ arg.backend >= 0 /\ prev.m_eof /\ ~m_eof

\* C9: Open returns true iff the stream was not open and both opens
\* succeeded; then m_isOpen is true, m_eof false and the stream count 0.  On
\* an open stream it returns false, does not call OpenPVRStream and changes
\* nothing; when it fails, m_isOpen and m_eof are unchanged.
C9_Open ==
  [][OpenStep =>
       /\ (ret' = TRUE) = (~m_isOpen /\ arg'.base /\ arg'.pvr)
       /\ (ret' = TRUE =>
             m_isOpen' /\ ~m_eof' /\ m_StreamProps'.iStreamCount = 0)
       /\ (m_isOpen =>
             /\ ret' = FALSE
             /\ "OpenPVRStream" \notin calls'
             /\ UNCHANGED objectVars)
       /\ (ret' = FALSE => UNCHANGED <<m_isOpen, m_eof>>)]_vars

\* An Open on an open stream that both opens would have let through.
C9_Witness ==
  /\ lastOp = "Open" /\ arg.base /\ arg.pvr
  /\ prev.m_isOpen /\ ret = FALSE /\ m_streamMap # EmptyMap

\* C10: the backend stream is closed once per successful open: the numbers
\* of successful OpenPVRStream calls and of ClosePVRStream calls differ by
\* one while the stream is open and are equal otherwise; a Close on a stream
\* that is not open calls nothing and changes nothing; a Close on an open
\* stream calls ClosePVRStream and leaves m_isOpen false and m_eof true.
C10_CloseOncePerOpen ==
  [][/\ nOpened' = nClosed' + (IF m_isOpen' THEN 1 ELSE 0)
     /\ (CloseStep /\ ~m_isOpen =>
           calls' = {} /\ nClosed' = nClosed /\ UNCHANGED objectVars)
     /\ (CloseStep /\ m_isOpen =>
           /\ "ClosePVRStream" \in calls' /\ nClosed' = nClosed + 1
           /\ ~m_isOpen' /\ m_eof')]_vars

\* The second Close in a row, after the second session.
C10_Witness ==
  /\ lastOp = "Close" /\ calls = {} /\ ~prev.m_isOpen
  /\ nOpened = 2 /\ nClosed = 2

\* The state is the one a rebuild of the stream map left: OpenDemux with a
\* client, or ReadDemux returning a stream-change packet.
RebuildDone ==
  \/ lastOp = "OpenDemux" /\ ret = TRUE
  \/ lastOp = "ReadDemux" /\ ret = Packet(DMX_SPECIALID_STREAMCHANGE)

\* The PIDs of the first GetNrOfStreams() entries of the snapshot.
SnapshotPids ==
  {m_StreamProps.stream[i].iPID : i \in 1..GetNrOfStreams(m_StreamProps)}

\* C1, as claimed: when the entry of an id has the same category in the
\* snapshots of two consecutive rebuilds, the second rebuild leaves the same
\* object under that id; this for every category.
C1_IdentityKept ==
  [][RebuildDone' =>
       \A id \in PIDs :
         builtCat[id] # "none" /\ builtCat'[id] = builtCat[id] =>
           /\ id \in DOMAIN m_streamMap /\ id \in DOMAIN m_streamMap'
           /\ m_streamMap'[id] = m_streamMap[id]]_vars

\* C2: after a rebuild, an id that was a key of the map before it and is not
\* the PID of one of the first GetNrOfStreams() entries is not in the map:
\* GetStream returns null for it.
C2_DroppedIdsAbsent ==
  RebuildDone =>
    \A id \in DOMAIN prev.m_streamMap :
      id \notin SnapshotPids => GetStream(id) = NullPtr

\* A rebuild that dropped one id and kept another.
C2_Witness ==
  /\ RebuildDone
  /\ \E id \in DOMAIN prev.m_streamMap :
       id \notin SnapshotPids /\ GetStream(id) = NullPtr
  /\ \E id \in DOMAIN prev.m_streamMap : GetStream(id) # NullPtr

\* The last of the first GetNrOfStreams() entries with PID id.
LastEntry(id) ==
  LET idx == {i \in 1..GetNrOfStreams(m_StreamProps) :
                m_StreamProps.stream[i].iPID = id}
  IN m_StreamProps.stream[CHOOSE i \in idx : \A j \in idx : j <= i]

\* The subtype the ordered rule of C3 gives an entry.
RuleSubtype(e) ==
  CASE e.iCodecType = "PVR_CODEC_TYPE_AUDIO" -> "CDemuxStreamAudio"
    [] e.iCodecType = "PVR_CODEC_TYPE_VIDEO" -> "CDemuxStreamVideo"
    [] /\ e.iCodecType \notin {"PVR_CODEC_TYPE_AUDIO", "PVR_CODEC_TYPE_VIDEO"}
       /\ e.iCodecId = "AV_CODEC_ID_DVB_TELETEXT" -> "CDemuxStreamTeletext"
    [] /\ e.iCodecType = "PVR_CODEC_TYPE_SUBTITLE"
       /\ e.iCodecId # "AV_CODEC_ID_DVB_TELETEXT" -> "CDemuxStreamSubtitle"
    [] /\ e.iCodecType = "PVR_CODEC_TYPE_RDS" /\ enableradiords
       /\ e.iCodecId # "AV_CODEC_ID_DVB_TELETEXT" -> "CDemuxStreamRadioRDS"
    [] /\ e.iCodecType = "PVR_CODEC_TYPE_ID3"
       /\ e.iCodecId # "AV_CODEC_ID_DVB_TELETEXT" -> "CDemuxStreamAudioID3"
    [] OTHER -> "CDemuxStream"

\* C3: after a rebuild the keys of the map are exactly the PIDs of the first
\* GetNrOfStreams() entries, and the object under each key has the subtype
\* the ordered rule gives the last entry with that PID.
C3_KeysAndSubtypes ==
  RebuildDone =>
    /\ DOMAIN m_streamMap = SnapshotPids
    /\ \A k \in DOMAIN m_streamMap :
         heap[m_streamMap[k]].type = RuleSubtype(LastEntry(k))

\* A snapshot that repeats a PID, the last entry a subtitle with the teletext
\* codec id, over a map that held an audio stream under that PID.
C3_Witness ==
  /\ RebuildDone
  /\ m_StreamProps.iStreamCount = 2
  /\ m_StreamProps.stream[1].iPID = m_StreamProps.stream[2].iPID
  /\ m_StreamProps.stream[1].iCodecType = "PVR_CODEC_TYPE_AUDIO"
  /\ m_StreamProps.stream[2].iCodecType = "PVR_CODEC_TYPE_SUBTITLE"
  /\ m_StreamProps.stream[2].iCodecId = "AV_CODEC_ID_DVB_TELETEXT"
  /\ m_StreamProps.stream[1].iPID \in DOMAIN prev.m_streamMap
  /\ heap[m_streamMap[m_StreamProps.stream[2].iPID]].type = "CDemuxStreamTeletext"

\* C11, as claimed: in every state reached by Close() on an open bridge the
\* stream map is empty and GetStream(id) returns null for every id.
C11_MapClearedAtClose ==
  lastOp = "Close" /\ prev.m_isOpen =>
    /\ m_streamMap = EmptyMap
    /\ \A id \in PIDs : GetStream(id) = NullPtr

\* C12, as claimed: in every reachable state a bridge that is not open is at
\* end of stream, Read and Seek on a bridge that is not open changing nothing.
C12_ClosedIsEof == ~m_isOpen => m_eof

\* The demux-side operations and the safe default each returns without a
\* client.
DemuxSideDefault ==
  [OpenDemux |-> FALSE, ReadDemux |-> NullPacket, SeekTime |-> FALSE,
   GetBlockSize |-> 0 - 1, SetSpeed |-> "void", FillBuffer |-> "void",
   AbortDemux |-> "void", FlushDemux |-> "void"]

\* C13: without a client OpenDemux returns false, ReadDemux null, SeekTime
\* false, GetBlockSize -1, SetSpeed, FillBuffer, AbortDemux and FlushDemux
\* nothing; none of them calls the backend or changes the snapshot, the
\* stream map or any other field of the object.
C13_NoClientDefaults ==
  [][~m_client /\ lastOp' \in DOMAIN DemuxSideDefault =>
       /\ ret' = DemuxSideDefault[lastOp']
       /\ calls' = {}
       /\ UNCHANGED objectVars]_vars

\* GetBlockSize without a client, on a bridge that was opened.
C13_Witness ==
  ~m_client /\ m_isOpen /\ lastOp = "GetBlockSize" /\ ret = 0 - 1 /\ calls = {}

\* C14: a ReadDemux that reaches the backend returns the packet DemuxRead
\* delivered, null included. For a stream-info packet it queries the snapshot
\* and leaves the keys and the objects of the stream map as they are; for a
\* stream-change packet it queries the snapshot and the map then has the
\* PIDs of that snapshot as its keys; for a null packet or any other stream
\* id it queries nothing and leaves the snapshot and the map unchanged.
C14_ReadDemuxEffect ==
  [][lastOp' = "ReadDemux" /\ m_client =>
       /\ "DemuxRead" \in calls'
       /\ ret' = arg'.packet
       /\ IF ret'.null
            THEN /\ "GetStreamProperties" \notin calls'
                 /\ UNCHANGED <<m_StreamProps, m_streamMap, heap>>
            ELSE IF ret'.iStreamId = DMX_SPECIALID_STREAMINFO
            THEN /\ "GetStreamProperties" \in calls'
                 /\ UNCHANGED <<m_streamMap, heap>>
            ELSE IF ret'.iStreamId = DMX_SPECIALID_STREAMCHANGE
            THEN /\ "GetStreamProperties" \in calls'
                 /\ DOMAIN m_streamMap' = SnapshotPids'
            ELSE /\ "GetStreamProperties" \notin calls'
                 /\ UNCHANGED <<m_StreamProps, m_streamMap, heap>>]_vars

\* A stream-info packet brought a snapshot whose entry of a stored PID has
\* another codec id than the descriptor, which the map still holds.
C14_Witness ==
  /\ lastOp = "ReadDemux" /\ ret = Packet(DMX_SPECIALID_STREAMINFO)
  /\ "GetStreamProperties" \in calls
  /\ m_streamMap = prev.m_streamMap
  /\ \E k \in DOMAIN m_streamMap \cap SnapshotPids :
       heap[m_streamMap[k]].codec # LastEntry(k).iCodecId

\* C15, as claimed: after a rebuild every key whose entry has the RDS
\* category holds a generic descriptor when RDS decoding is disabled and an
\* RDS descriptor when it is enabled.
C15_RdsFollowsSetting ==
  RebuildDone =>
    \A k \in DOMAIN m_streamMap :
      LastEntry(k).iCodecType = "PVR_CODEC_TYPE_RDS" =>
        heap[m_streamMap[k]].type =
          IF enableradiords THEN "CDemuxStreamRadioRDS" ELSE "CDemuxStream"

\* C15, amended: the same for every key whose entry has the RDS category and
\* a codec id other than DVB teletext; an RDS entry with the DVB teletext
\* codec id gets a teletext descriptor under either setting.
C15_RdsFollowsSettingUnlessTeletext ==
  RebuildDone =>
    \A k \in DOMAIN m_streamMap :
      LastEntry(k).iCodecType = "PVR_CODEC_TYPE_RDS" =>
        heap[m_streamMap[k]].type =
          IF LastEntry(k).iCodecId = "AV_CODEC_ID_DVB_TELETEXT"
            THEN "CDemuxStreamTeletext"
            ELSE IF enableradiords THEN "CDemuxStreamRadioRDS"
                                   ELSE "CDemuxStream"

\* A rebuild with RDS decoding enabled replaced the descriptor that an
\* earlier rebuild had stored under the PID of an RDS entry.
C15_Witness ==
  /\ RebuildDone /\ enableradiords
  /\ \E k \in DOMAIN m_streamMap \cap DOMAIN prev.m_streamMap :
       /\ LastEntry(k).iCodecType = "PVR_CODEC_TYPE_RDS"
       /\ LastEntry(k).iCodecId # "AV_CODEC_ID_DVB_TELETEXT"
       /\ heap[m_streamMap[k]].type = "CDemuxStreamRadioRDS"
       /\ m_streamMap[k] # prev.m_streamMap[k]

\* C16, as claimed: after a rebuild the descriptor of a subtitle-category
\* entry with a nonzero subtitle-info word has 4 bytes of extra data, and
\* for the word 0x12345678 they are 0x34, 0x78, 0x12, 0x56.
C16_SubtitleExtraData ==
  RebuildDone =>
    \A k \in DOMAIN m_streamMap :
      (/\ LastEntry(k).iCodecType = "PVR_CODEC_TYPE_SUBTITLE"
       /\ LastEntry(k).iSubtitleInfo # 0) =>
        /\ Len(heap[m_streamMap[k]].extraData) = 4
        /\ LastEntry(k).iSubtitleInfo = 305419896 =>
             heap[m_streamMap[k]].extraData = <<52, 120, 18, 86>>

\* C16, amended: the descriptor of a subtitle-category entry with a nonzero
\* subtitle-info word and a codec id other than DVB teletext has 4 bytes of
\* extra data: bits 15-8, 7-0, 31-24 and 23-16 of the word, which for
\* 0x12345678 are 0x56, 0x78, 0x12, 0x34. With the DVB teletext codec id the
\* entry gets a teletext descriptor, into which no extra data is written.
C16_SubtitleExtraDataLayout ==
  RebuildDone =>
    \A k \in DOMAIN m_streamMap :
      (/\ LastEntry(k).iCodecType = "PVR_CODEC_TYPE_SUBTITLE"
       /\ LastEntry(k).iSubtitleInfo # 0) =>
        IF LastEntry(k).iCodecId = "AV_CODEC_ID_DVB_TELETEXT"
          THEN /\ heap[m_streamMap[k]].type = "CDemuxStreamTeletext"
               /\ heap[m_streamMap[k]].extraData = <<>>
          ELSE /\ Len(heap[m_streamMap[k]].extraData) = 4
               /\ LastEntry(k).iSubtitleInfo = 305419896 =>
                    heap[m_streamMap[k]].extraData = <<86, 120, 18, 52>>

\* A rebuild gave a new subtitle descriptor the bytes of the word 0x12345678.
C16_Witness ==
  /\ RebuildDone
  /\ \E k \in DOMAIN m_streamMap :
       /\ LastEntry(k).iCodecType = "PVR_CODEC_TYPE_SUBTITLE"
       /\ LastEntry(k).iCodecId # "AV_CODEC_ID_DVB_TELETEXT"
       /\ LastEntry(k).iSubtitleInfo = 305419896
       /\ k \notin DOMAIN prev.m_streamMap
       /\ heap[m_streamMap[k]].extraData = <<86, 120, 18, 52>>

\* A reader called GetStreams while a rebuild was between two of its steps.
ReadDuringRebuild == pc = "loop" /\ lastOp = "GetStreams"

\* What a reader sees before the rebuild in progress and after it, the
\* latter for a count the array has room for.
FullyOld == Observed(liveBefore.map, liveBefore.heap)
FullyNew ==
  LET r == UpdateStreamMap(m_StreamProps, liveBefore.map, liveBefore.heap,
                           enableradiords)
  IN Observed(r.map, r.heap)

\* C17, as claimed: what a reader gets from GetStreams between two steps of
\* a rebuild is the map as it was before the rebuild or as it is after it,
\* keys, objects and the fields of the objects.
C17_OldOrNew ==
  ReadDuringRebuild /\ GetNrOfStreams(m_StreamProps) \in 0..MaxStreams =>
    ret \in {FullyOld, FullyNew}

\* C17, amended: between two steps of a rebuild a reader gets the keys of
\* the map as it was before the rebuild and under each key the same object;
\* the fields of an object differ from those it had before the rebuild only
\* under the PID of an entry the loop has already stored in newStreamMap.
C17_OldKeysAndObjects ==
  ReadDuringRebuild =>
    /\ DOMAIN ret = DOMAIN liveBefore.map
    /\ \A k \in DOMAIN ret :
         /\ ret[k].object = liveBefore.map[k]
         /\ ret[k].fields # liveBefore.heap[liveBefore.map[k]] =>
              k \in DOMAIN newStreamMap

\* A reader saw, in the middle of a rebuild, a map that is neither the one
\* before the rebuild nor the one after it.
C17_Witness ==
  /\ ReadDuringRebuild
  /\ GetNrOfStreams(m_StreamProps) \in 0..MaxStreams
  /\ loopIndex <= GetNrOfStreams(m_StreamProps)
  /\ ret \notin {FullyOld, FullyNew}

\* C18: in every reachable state the descriptor stored under a key of the
\* stream map has that key as its uniqueId, and no descriptor is stored
\* under two keys.
C18_KeyIsUniqueId ==
  /\ \A k \in DOMAIN m_streamMap : heap[m_streamMap[k]].uniqueId = k
  /\ \A k1, k2 \in DOMAIN m_streamMap :
       m_streamMap[k1] = m_streamMap[k2] => k1 = k2

\* A rebuild from a snapshot that names one PID twice, with two categories,
\* over a map that held a descriptor under that PID, which it replaced.
C18_Witness ==
  /\ RebuildDone
  /\ m_StreamProps.iStreamCount = 2
  /\ m_StreamProps.stream[1].iPID = m_StreamProps.stream[2].iPID
  /\ m_StreamProps.stream[1].iCodecType # m_StreamProps.stream[2].iCodecType
  /\ \E k \in DOMAIN m_streamMap \cap DOMAIN prev.m_streamMap :
       /\ k = m_StreamProps.stream[2].iPID
       /\ m_streamMap[k] # prev.m_streamMap[k]
       /\ heap[m_streamMap[k]].uniqueId = k

\* C19, as claimed: after a rebuild the extra data of every subtitle
\* descriptor of the map is the 4 bytes decoded from the subtitle-info word
\* of its entry when that word is nonzero, and is empty when the word is 0.
C19_ExtraDataIsCurrent ==
  RebuildDone =>
    \A k \in DOMAIN m_streamMap :
      heap[m_streamMap[k]].type = "CDemuxStreamSubtitle" =>
        heap[m_streamMap[k]].extraData =
          IF LastEntry(k).iSubtitleInfo # 0
            THEN ExtraDataOf(LastEntry(k).iSubtitleInfo)
            ELSE <<>>

\* C20, as claimed: whatever count the client reported, an iteration of the
\* loop of a rebuild has read a slot of the array: the slot just read,
\* loopIndex - 1 counting from 1, is one of the MaxStreams slots.
C20_ReadsInsideTheArray ==
  lastOp = "UpdateStreamMap" => loopIndex - 1 \in 1..MaxStreams

====
